---------------------------- MODULE Spec2Model ----------------------------
(***************************************************************************)
(* cronolize (cmd/cronolize/cronolize.go): one command scheduled by a     *)
(* five field CRON expression, run either in the foreground or by a       *)
(* detached copy of the program that main() starts of itself.             *)
(*                                                                         *)
(* The scheduler is the one main() builds with cron.New() (no options)    *)
(* from github.com/robfig/cron/v3: AddFunc parses the expression with the *)
(* standard five field parser, Start computes the entry's next activation *)
(* with SpecSchedule.Next and, at each activation, starts the registered  *)
(* function in a goroutine of its own.  Instants are wall-clock UTC.       *)
(***************************************************************************)
EXTENDS Integers, Sequences, FiniteSets, TLC

VARIABLES
    procs,      \* PID -> the state of that process (see NoProc)
    runs,       \* the commands fired so far, in the order they were started
    now,        \* the wall clock, at minute resolution
    ticks,      \* minutes elapsed since Init
    nx          \* the recurrence engine on its own: [s, t, r, n]

vars == <<procs, runs, now, ticks, nx>>

-----------------------------------------------------------------------------
(* Bounds of the model.                                                    *)

MaxProcs == 3       \* process ids available (the invoked one and copies)
MaxTicks == 3       \* minutes the clock advances
MaxRuns == 3        \* commands fired
MaxChain == 2       \* successive activations computed by the engine alone

PIDs == 1..MaxProcs

-----------------------------------------------------------------------------
(* Wall-clock instants: time.Time in UTC, to the second.                   *)

Instant(y, mo, d, h, mi, s) == [y |-> y, mo |-> mo, d |-> d, h |-> h, mi |-> mi, s |-> s]

\* time.Time{}: January 1, year 1, 00:00:00 UTC.
ZeroTime == Instant(1, 1, 1, 0, 0, 0)

IsZero(t) == t = ZeroTime

IsLeap(y) == (y % 4 = 0) /\ ((y % 100 # 0) \/ (y % 400 = 0))

DaysIn(y, mo) ==
    IF mo = 2 THEN (IF IsLeap(y) THEN 29 ELSE 28)
    ELSE IF mo \in {4, 6, 9, 11} THEN 30 ELSE 31

\* Time.Weekday(): 0 = Sunday .. 6 = Saturday.
Weekday(t) ==
    LET off == <<0, 3, 2, 5, 0, 3, 5, 1, 4, 6, 2, 4>>
        yy == IF t.mo < 3 THEN t.y - 1 ELSE t.y
    IN  (yy + (yy \div 4) - (yy \div 100) + (yy \div 400) + off[t.mo] + t.d) % 7

DateKey(t) == (t.y * 13 + t.mo) * 32 + t.d
TimeKey(t) == (t.h * 60 + t.mi) * 60 + t.s

\* Time.Before / Time.After.
Before(a, b) ==
    \/ DateKey(a) < DateKey(b)
    \/ DateKey(a) = DateKey(b) /\ TimeKey(a) < TimeKey(b)

After(a, b) == Before(b, a)

\* t.AddDate(0, 0, 1) on a valid date.
AddDay(t) ==
    IF t.d < DaysIn(t.y, t.mo) THEN [t EXCEPT !.d = t.d + 1]
    ELSE IF t.mo < 12 THEN [t EXCEPT !.d = 1, !.mo = t.mo + 1]
    ELSE [t EXCEPT !.d = 1, !.mo = 1, !.y = t.y + 1]

\* t.AddDate(0, 1, 0): the month is advanced and a day past the end of the
\* new month is normalised into the month after it.
AddMonth(t) ==
    LET y1 == IF t.mo = 12 THEN t.y + 1 ELSE t.y
        m1 == IF t.mo = 12 THEN 1 ELSE t.mo + 1
    IN  IF t.d <= DaysIn(y1, m1) THEN [t EXCEPT !.y = y1, !.mo = m1]
        ELSE [t EXCEPT !.y = IF m1 = 12 THEN y1 + 1 ELSE y1,
                       !.mo = IF m1 = 12 THEN 1 ELSE m1 + 1,
                       !.d = t.d - DaysIn(y1, m1)]

\* t.Add(1 * time.Hour), t.Add(1 * time.Minute), t.Add(1 * time.Second).
AddHour(t) == IF t.h < 23 THEN [t EXCEPT !.h = t.h + 1] ELSE AddDay([t EXCEPT !.h = 0])
AddMinute(t) == IF t.mi < 59 THEN [t EXCEPT !.mi = t.mi + 1] ELSE AddHour([t EXCEPT !.mi = 0])
AddSecond(t) == IF t.s < 59 THEN [t EXCEPT !.s = t.s + 1] ELSE AddMinute([t EXCEPT !.s = 0])

-----------------------------------------------------------------------------
(* The recurrence engine: cron.SpecSchedule as the standard parser builds  *)
(* it from a five field expression.  Each field is the set of accepted     *)
(* values (the bit set of the library); domStar / dowStar are the star bit *)
(* of the day-of-month and day-of-week fields; the seconds field of a five *)
(* field expression is the parser's default "0".                           *)

Schedule(mins, hrs, doms, domStar, mons, dows, dowStar) ==
    [valid |-> TRUE, second |-> {0}, minute |-> mins, hour |-> hrs,
     dom |-> doms, domStar |-> domStar, month |-> mons,
     dow |-> dows, dowStar |-> dowStar]

\* What AddFunc is left with when the parser rejects the expression.
Malformed ==
    [valid |-> FALSE, second |-> {}, minute |-> {}, hour |-> {},
     dom |-> {}, domStar |-> FALSE, month |-> {}, dow |-> {}, dowStar |-> FALSE]

AllMinutes == 0..59
AllHours == 0..23
AllDoms == 1..31
AllMonths == 1..12
AllDows == 0..6

\* Mutant: day-of-month and day-of-week are always AND-ed.
dayMatchesBoth(s, t) == t.d \in s.dom /\ Weekday(t) \in s.dow

\* dayMatches: day-of-month and day-of-week are AND-ed when either is a
\* star, OR-ed when both are restricted.
dayMatches(s, t) ==
    LET domMatch == t.d \in s.dom
        dowMatch == Weekday(t) \in s.dow
    IN  IF s.domStar \/ s.dowStar THEN domMatch /\ dowMatch
        ELSE domMatch \/ dowMatch

\* The reset each loop of Next makes the first time a field is incremented.
ResetForMonth(t) == Instant(t.y, t.mo, 1, 0, 0, 0)
ResetForDay(t) == Instant(t.y, t.mo, t.d, 0, 0, 0)
ResetForHour(t) == Instant(t.y, t.mo, t.d, t.h, 0, 0)
ResetForMinute(t) == [t EXCEPT !.s = 0]

\* The day loop's correction after AddDate when the hour is no longer
\* midnight (daylight saving); in UTC the hour stays 0.
MidnightFix(t) ==
    IF t.h = 0 THEN t
    ELSE IF t.h > 12 THEN AddDay([t EXCEPT !.h = 0])
    ELSE [t EXCEPT !.h = 0]

\* One loop of Next: the instant it stops at, whether a field has been
\* incremented so far, and whether it stopped with "goto WRAP".
Step(t, added, wrap) == [t |-> t, added |-> added, wrap |-> wrap]

RECURSIVE MonthLoop(_, _, _), DayLoop(_, _, _), HourLoop(_, _, _),
          MinuteLoop(_, _, _), SecondLoop(_, _, _), NextWrap(_, _, _, _)

MonthLoop(s, t, added) ==
    IF t.mo \in s.month THEN Step(t, added, FALSE)
    ELSE LET t1 == AddMonth(IF added THEN t ELSE ResetForMonth(t))
         IN  IF t1.mo = 1 THEN Step(t1, TRUE, TRUE)
             ELSE MonthLoop(s, t1, TRUE)

DayLoop(s, t, added) ==
    IF dayMatches(s, t) THEN Step(t, added, FALSE)
    ELSE LET t1 == MidnightFix(AddDay(IF added THEN t ELSE ResetForDay(t)))
         IN  IF t1.d = 1 THEN Step(t1, TRUE, TRUE)
             ELSE DayLoop(s, t1, TRUE)

HourLoop(s, t, added) ==
    IF t.h \in s.hour THEN Step(t, added, FALSE)
    ELSE LET t1 == AddHour(IF added THEN t ELSE ResetForHour(t))
         IN  IF t1.h = 0 THEN Step(t1, TRUE, TRUE)
             ELSE HourLoop(s, t1, TRUE)

MinuteLoop(s, t, added) ==
    IF t.mi \in s.minute THEN Step(t, added, FALSE)
    ELSE LET t1 == AddMinute(IF added THEN t ELSE ResetForMinute(t))
         IN  IF t1.mi = 0 THEN Step(t1, TRUE, TRUE)
             ELSE MinuteLoop(s, t1, TRUE)

SecondLoop(s, t, added) ==
    IF t.s \in s.second THEN Step(t, added, FALSE)
    ELSE LET t1 == AddSecond(t)
         IN  IF t1.s = 0 THEN Step(t1, TRUE, TRUE)
             ELSE SecondLoop(s, t1, TRUE)

\* From the label WRAP to the next "goto WRAP" or to the return.
Pass(s, t, added) ==
    LET mo == MonthLoop(s, t, added) IN
    IF mo.wrap THEN mo ELSE
    LET dy == DayLoop(s, mo.t, mo.added) IN
    IF dy.wrap THEN dy ELSE
    LET hr == HourLoop(s, dy.t, dy.added) IN
    IF hr.wrap THEN hr ELSE
    LET mi == MinuteLoop(s, hr.t, hr.added) IN
    IF mi.wrap THEN mi ELSE SecondLoop(s, mi.t, mi.added)

\* WRAP: give up (the zero time) once the year is past the limit.
NextWrap(s, t, added, yearLimit) ==
    IF t.y > yearLimit THEN ZeroTime
    ELSE LET r == Pass(s, t, added)
         IN  IF r.wrap THEN NextWrap(s, r.t, r.added, yearLimit) ELSE r.t

\* SpecSchedule.Next(t): start at the upcoming second; no time found within
\* five years gives the zero time.
SpecNext(s, t) ==
    LET t0 == AddSecond(t)
    IN  NextWrap(s, t0, FALSE, t0.y + 5)

-----------------------------------------------------------------------------
(* The command line and the environment main() is started with.            *)

\* The expressions given on the command line in the runs of the whole
\* program: "* * * * *", "0 0 1 1 *" (@yearly), "0 0 31 2 *" (parses, and
\* February has no day 31) and one the parser rejects.
EveryMinute == Schedule(AllMinutes, AllHours, AllDoms, TRUE, AllMonths, AllDows, TRUE)
Yearly == Schedule({0}, {0}, {1}, FALSE, {1}, AllDows, TRUE)
Feb31 == Schedule({0}, {0}, {31}, FALSE, {2}, AllDows, TRUE)

CommandLines ==
    [parse : {"ok", "help", "undefined"},  \* flag.Parse(): fine, -h, or a flag not defined
     nargs : {1, 2, 3},                    \* len(flag.Args())
     fg : {"absent", "true", "false"},     \* -fg, -fg=false or no -fg
     log : {"default", "good", "unresolvable", "unopenable"},   \* -log
     truncate : BOOLEAN,                   \* -truncate
     quiet : BOOLEAN,                      \* -q
     shell : {"/bin/sh"},                  \* -shell
     shellCommandOption : {"-c", ""},      \* -shellCommandOption
     expr : {EveryMinute, Yearly, Feb31, Malformed},   \* flag.Args()[0]
     command : {<<"date">>, <<"echo", "hi">>}]   \* flag.Args()[1], as the words in it

\* const cronolizerEnvVar / envVarValueExpected: the values the variable
\* __CRONOLIZER__ can have in the environment of a starting process.
envVarValueExpected == "INSTANTIATED"
Markers == {"absent", envVarValueExpected, "other"}

\* flag.Bool(foregroundFlag): *foreground.
foreground(a) == a.fg = "true"
\* flag.CommandLine.Visit: the flags that were set on the command line.
hasForegroundFlag(a) == a.fg # "absent"
hasLogFlag(a) == a.log # "default"

-----------------------------------------------------------------------------
(* Processes.                                                              *)

NoArgs ==
    [parse |-> "ok", nargs |-> 0, fg |-> "absent", log |-> "default", truncate |-> FALSE,
     quiet |-> FALSE, shell |-> "", shellCommandOption |-> "", expr |-> Malformed,
     command |-> <<>>]

\* A process id no process has been started under yet.
NoProc ==
    [pc |-> "unborn", args |-> NoArgs, parent |-> 0,
     startEnv |-> "absent", startStream |-> "none", env |-> "absent",
     stdin |-> "none", stdout |-> "none", stderr |-> "none", logOutput |-> "none",
     isCronProcess |-> FALSE, exit |-> -1, diag |-> "none",
     opens |-> 0, truncs |-> 0, fdOpen |-> FALSE,
     registered |-> FALSE, started |-> FALSE, startedAt |-> ZeroTime, next |-> ZeroTime,
     spawned |-> 0, spawnFailed |-> FALSE, pidLines |-> 0, pidTo |-> "none",
     pidPrinted |-> 0]

\* A process at the first line of main(): its arguments, the marker in its
\* environment and what its three standard streams are connected to.
NewProc(a, marker, parent, stream) ==
    [NoProc EXCEPT !.pc = "start", !.args = a, !.parent = parent,
                   !.startEnv = marker, !.startStream = stream, !.env = marker,
                   !.stdin = stream, !.stdout = stream, !.stderr = stream,
                   !.logOutput = stream]

\* fatal(), fatalf() and the usage branch: one diagnostic on os.Stderr, then
\* os.Exit(1).
Fatal(pr) == [pr EXCEPT !.pc = "exited", !.exit = 1, !.diag = pr.stderr]

\* Mutant: the flag package reports every parse failure with status 1.
ParseExitAlwaysOne(a) == 1

\* main, line 134: flag.Parse() on flag.CommandLine, whose error handling is
\* flag.ExitOnError: the usage text on os.Stderr, then os.Exit(0) when the
\* failure is -h or -help (flag.ErrHelp), os.Exit(2) for any other.
ParseExit(a) == IF a.parse = "help" THEN 0 ELSE 2

\* flag.Parse() fails.
ParseFails(a) == a.parse # "ok"

FlagParseExit(pr) ==
    [pr EXCEPT !.pc = "exited", !.exit = ParseExit(pr.args), !.diag = pr.stderr]

\* Mutant: the variable is unset only when it has the expected value.
EnvUnsetIfExpected(marker) == IF marker = envVarValueExpected THEN "absent" ELSE marker

\* Mutant: the variable is never unset.
EnvKept(marker) == marker

\* main, lines 123-125: the variable is unset whenever it was set.
EnvAfterLookup(marker) == IF marker # "absent" THEN "absent" ELSE marker

\* Mutant: the variable is looked up after it has been unset.
IsCronProcessAfterUnset(marker) == EnvAfterLookup(marker) = envVarValueExpected

\* main, lines 117-122.
IsCronProcess(marker) == marker = envVarValueExpected

\* Mutant: only too few arguments are rejected.
TooFewArgs(a) == a.nargs < 2

\* main, line 136.
WrongArgCount(a) == a.nargs # 2

\* Mutant: the value of -fg is tested, not whether it was given.
FlagConflictByValue(a) == hasLogFlag(a) /\ foreground(a)

\* main, lines 146-159.
FlagConflict(a) == hasLogFlag(a) /\ hasForegroundFlag(a)

\* main, lines 162-171: filepath.EvalSymlinks fails with something other
\* than fs.ErrNotExist.
ResolveFails(a) == a.log = "unresolvable"

\* main, lines 173-182: os.OpenFile fails.
OpenFails(a) == a.log = "unopenable"

\* Mutant: the streams are redirected in every process that opens the file.
OpenLogAndRedirect(pr) ==
    IF foreground(pr.args) THEN pr
    ELSE IF ResolveFails(pr.args) \/ OpenFails(pr.args) THEN Fatal(pr)
    ELSE [pr EXCEPT !.opens = pr.opens + 1,
                    !.truncs = IF pr.args.truncate THEN pr.truncs + 1 ELSE pr.truncs,
                    !.stdout = "logfile", !.stderr = "logfile",
                    !.logOutput = "logfile", !.fdOpen = TRUE]

\* Mutant: the log file is opened and closed again in every process.
OpenLogThenClose(pr) ==
    IF foreground(pr.args) THEN pr
    ELSE IF ResolveFails(pr.args) \/ OpenFails(pr.args) THEN Fatal(pr)
    ELSE [pr EXCEPT !.opens = pr.opens + 1,
                    !.truncs = IF pr.args.truncate THEN pr.truncs + 1 ELSE pr.truncs]

\* main, lines 161-191: the log file, when not in the foreground.
OpenLog(pr) ==
    IF foreground(pr.args) THEN pr
    ELSE IF ResolveFails(pr.args) \/ OpenFails(pr.args) THEN Fatal(pr)
    ELSE LET opened == [pr EXCEPT !.opens = pr.opens + 1,
                                  !.truncs = IF pr.args.truncate THEN pr.truncs + 1
                                             ELSE pr.truncs]
         IN  IF pr.isCronProcess
             THEN [opened EXCEPT !.stdout = "logfile", !.stderr = "logfile",
                                 !.logOutput = "logfile", !.fdOpen = TRUE]
             ELSE opened

\* main, lines 193-221: cron.New() and AddFunc.
AddFunc(pr) ==
    IF ~pr.args.expr.valid THEN Fatal(pr)
    ELSE [pr EXCEPT !.registered = TRUE, !.pc = "ready"]

\* Mutant: the expression is parsed before the log file is opened.
ValidateParseFirst(pr) ==
    LET p1 == [pr EXCEPT !.isCronProcess = IsCronProcess(pr.env),
                         !.env = EnvAfterLookup(pr.env)]
    IN  IF ParseFails(p1.args) THEN FlagParseExit(p1)
        ELSE IF WrongArgCount(p1.args) THEN Fatal(p1)
        ELSE IF FlagConflict(p1.args) THEN Fatal(p1)
        ELSE LET p2 == AddFunc(p1)
             IN  IF p2.pc = "exited" THEN p2 ELSE OpenLog(p2)

\* main, lines 115-221, from a process's start to the registered function
\* or to the exit a startup error makes.
Validate(pr) ==
    LET p1 == [pr EXCEPT !.isCronProcess = IsCronProcess(pr.env),
                         !.env = EnvAfterLookup(pr.env)]
    IN  IF ParseFails(p1.args) THEN FlagParseExit(p1)
        ELSE IF WrongArgCount(p1.args) THEN Fatal(p1)
        ELSE IF FlagConflict(p1.args) THEN Fatal(p1)
        ELSE LET p2 == OpenLog(p1)
             IN  IF p2.pc = "exited" THEN p2 ELSE AddFunc(p2)

\* Mutant: -fg is not consulted.
BlocksOnlyAsCronProcess(pr) == pr.isCronProcess

\* Mutant: the marker is not consulted.
BlocksOnlyInForeground(pr) == foreground(pr.args)

\* main, line 223.
BlocksForever(pr) == pr.isCronProcess \/ foreground(pr.args)

\* Mutant: -q is ignored.
AnnouncesAlways(a) == TRUE

\* main, lines 197, 202 and 247: if !*quiet.
Announces(a) == ~a.quiet

-----------------------------------------------------------------------------
(* The registered function (main, lines 194-218) and the scheduler that    *)
(* calls it.                                                               *)

\* Mutant: the option is passed even when it is empty.
CommandLineWithOption(a) == <<a.shell, a.shellCommandOption, a.command>>

\* lines 196-206: exec.Command with or without the shell's command option.
CommandLine(a) ==
    IF a.shellCommandOption # "" THEN <<a.shell, a.shellCommandOption, a.command>>
    ELSE <<a.shell, a.command>>

\* Mutant: the command always gets the scheduler's standard input.
CmdStdinInherited(a) == "os.Stdin"

\* lines 207-211: what cmd.Stdin is set to.
CmdStdin(a) == IF ~foreground(a) THEN "os.Stdin" ELSE "nil"

\* What the command then reads from: exec connects a nil Stdin to the null
\* device, and os.Stdin is the scheduler's own standard input.
StdinFile(binding, pr) == IF binding = "nil" THEN "devnull" ELSE pr.stdin

\* The command one activation starts in process p, up to cmd.Run().
NewRun(p, pr, spawnOK) ==
    [pid |-> p, due |-> pr.next, at |-> now,
     argv |-> CommandLine(pr.args),
     announced |-> Announces(pr.args), announcedTo |-> pr.logOutput,
     stdin |-> CmdStdin(pr.args), stdinFile |-> StdinFile(CmdStdin(pr.args), pr),
     stdout |-> pr.stdout, stderr |-> pr.stderr, env |-> pr.env,
     state |-> IF spawnOK THEN "running" ELSE "failed",
     afterFailure |-> \E i \in 1..Len(runs) : runs[i].pid = p /\ runs[i].state = "failed"]

\* Mutant: the error is reported and the scheduler goes on.
LogAndContinue(pr) == [pr EXCEPT !.diag = pr.stderr]

\* lines 214-217: cmd.Run() returned an error.
OnRunError(pr) == Fatal(pr)

\* Mutant: the process ends once a command has run.
ExitAfterRun(pr) == [pr EXCEPT !.pc = "exited", !.exit = 0]

\* lines 214-218: cmd.Run() returned nil; the registered function returns
\* and main goes on sleeping.
OnRunReturn(pr) == pr

\* Mutant: the entry keeps the activation it has just run.
RescheduleStale(pr) == pr.next

\* cron.run after an activation: e.Next = e.Schedule.Next(now).
Reschedule(pr) == SpecNext(pr.args.expr, now)

\* Mutant: an entry whose Next is zero counts as overdue.
DueEvenIfZero(pr) == ~After(pr.next, now)

\* cron.run: the timer of an entry whose Next is zero never fires, the
\* others are due once the clock has reached Next.
Due(pr) == ~IsZero(pr.next) /\ ~After(pr.next, now)

-----------------------------------------------------------------------------
(* The actions.                                                            *)

NxIdle == [s |-> Malformed, t |-> ZeroTime, r |-> ZeroTime, n |-> 0, done |-> FALSE]

StartInstant == Instant(2023, 12, 31, 23, 58, 0)

Init ==
    /\ \E a \in CommandLines, m \in Markers :
          procs = [p \in PIDs |-> IF p = 1 THEN NewProc(a, m, 0, "tty") ELSE NoProc]
    /\ runs = <<>>
    /\ now = StartInstant
    /\ ticks = 0
    /\ nx = NxIdle

\* main from its first line to the end of the startup checks.
Startup(p) ==
    /\ procs[p].pc = "start"
    /\ procs' = [procs EXCEPT ![p] = Validate(procs[p])]
    /\ UNCHANGED <<runs, now, ticks, nx>>

\* main, lines 223-229: c.Start() and the endless sleep.  Start computes the
\* entry's first activation from the current time.
Block(p) ==
    /\ procs[p].pc = "ready"
    /\ BlocksForever(procs[p])
    /\ procs' = [procs EXCEPT ![p] = [procs[p] EXCEPT !.pc = "blocking", !.started = TRUE,
                                          !.startedAt = now,
                                          !.next = SpecNext(procs[p].args.expr, now)]]
    /\ UNCHANGED <<runs, now, ticks, nx>>

\* main, lines 231-249: set the marker, start a copy of the program with the
\* same arguments and no standard streams, print its PID, return.
Relaunch(p) ==
    /\ procs[p].pc = "ready"
    /\ ~BlocksForever(procs[p])
    /\ \E c \in PIDs :
          /\ procs[c].pc = "unborn"
          /\ \A d \in PIDs : procs[d].pc = "unborn" => c <= d
          /\ \E startOK \in BOOLEAN :
                LET marked == [procs[p] EXCEPT !.env = envVarValueExpected]
                IN  procs' =
                      IF startOK
                      THEN [procs EXCEPT
                              ![p] = [marked EXCEPT !.pc = "exited", !.exit = 0,
                                         !.spawned = @ + 1,
                                         !.pidLines = IF Announces(marked.args) THEN @ + 1 ELSE @,
                                         !.pidTo = IF Announces(marked.args) THEN marked.stdout ELSE @,
                                         !.pidPrinted = IF Announces(marked.args) THEN c ELSE @],
                              ![c] = NewProc(marked.args, marked.env, p, "devnull")]
                      ELSE [procs EXCEPT ![p] = [Fatal(marked) EXCEPT !.spawnFailed = TRUE]]
    /\ UNCHANGED <<runs, now, ticks, nx>>

\* An activation: the scheduler starts the registered function in a new
\* goroutine and reschedules the entry; the function runs up to cmd.Run().
Fire(p) ==
    /\ procs[p].pc = "blocking"
    /\ Due(procs[p])
    /\ Len(runs) < MaxRuns
    /\ \E spawnOK \in BOOLEAN :
          /\ runs' = Append(runs, NewRun(p, procs[p], spawnOK))
          /\ procs' = [procs EXCEPT ![p] =
                         LET rescheduled == [procs[p] EXCEPT !.next = Reschedule(procs[p])]
                         IN  IF spawnOK THEN rescheduled ELSE OnRunError(rescheduled)]
    /\ UNCHANGED <<now, ticks, nx>>

\* cmd.Run() returns in the goroutine of run i: the command has exited, with
\* status 0 or not.
CmdExit(i) ==
    /\ i \in 1..Len(runs)
    /\ runs[i].state = "running"
    /\ procs[runs[i].pid].pc = "blocking"
    /\ \E ok \in BOOLEAN :
          /\ runs' = [runs EXCEPT ![i].state = IF ok THEN "done" ELSE "failed"]
          /\ procs' = IF ok THEN [procs EXCEPT ![runs[i].pid] = OnRunReturn(procs[runs[i].pid])]
                      ELSE [procs EXCEPT ![runs[i].pid] = OnRunError(procs[runs[i].pid])]
    /\ UNCHANGED <<now, ticks, nx>>

\* A minute passes.
Tick ==
    /\ ticks < MaxTicks
    /\ now' = AddMinute(now)
    /\ ticks' = ticks + 1
    /\ UNCHANGED <<procs, runs, nx>>

Next ==
    \/ \E p \in PIDs : Startup(p)
    \/ \E p \in PIDs : Block(p)
    \/ \E p \in PIDs : Relaunch(p)
    \/ \E p \in PIDs : Fire(p)
    \/ \E i \in 1..MaxRuns : CmdExit(i)
    \/ Tick

Spec == Init /\ [][Next]_vars

\* The same program under a clock the scheduler keeps up with: the timer
\* cron.run sets for the entry's activation expires within the minute, so
\* the minute does not end with an activation still to be started.
TimerExpired == \A p \in PIDs : procs[p].pc = "blocking" => ~Due(procs[p])

TickPrompt ==
    /\ TimerExpired
    /\ Tick

PromptNext ==
    \/ \E p \in PIDs : Startup(p)
    \/ \E p \in PIDs : Block(p)
    \/ \E p \in PIDs : Relaunch(p)
    \/ \E p \in PIDs : Fire(p)
    \/ \E i \in 1..MaxRuns : CmdExit(i)
    \/ TickPrompt

PromptSpec == Init /\ [][PromptNext]_vars

-----------------------------------------------------------------------------
(* The recurrence engine on its own: SpecSchedule.Next applied to a        *)
(* schedule and a reference instant, and then again to its own result, as  *)
(* cron.run does after each activation.                                    *)

\* The schedules: every combination of these field values.
EngineSchedules ==
    { Schedule(mi, h, dm.set, dm.star, mo, dw.set, dw.star) :
        mi \in {AllMinutes, {0}, {15, 45}},
        h \in {AllHours, {0}, {12}},
        dm \in {[set |-> AllDoms, star |-> TRUE], [set |-> {1}, star |-> FALSE],
                [set |-> {13}, star |-> FALSE], [set |-> {29}, star |-> FALSE],
                [set |-> {31}, star |-> FALSE]},
        mo \in {AllMonths, {2}, {4, 6, 9, 11}},
        dw \in {[set |-> AllDows, star |-> TRUE], [set |-> {0}, star |-> FALSE],
                [set |-> {5}, star |-> FALSE]} }

\* The reference instants: ends of years and of Februaries, an instant that
\* is itself an activation, one inside a minute, one before a Friday 13th,
\* one with no February 29 in the five years after it.
ReferenceInstants ==
    { Instant(2023, 12, 31, 23, 59, 0), Instant(2024, 2, 28, 23, 59, 30),
      Instant(2023, 2, 28, 12, 0, 0), Instant(2024, 2, 29, 0, 0, 0),
      Instant(2024, 9, 10, 12, 30, 0), Instant(2024, 1, 31, 0, 0, 59),
      Instant(2096, 3, 1, 0, 0, 0) }

NextInit ==
    /\ procs = [p \in PIDs |-> NoProc]
    /\ runs = <<>>
    /\ now = StartInstant
    /\ ticks = 0
    /\ \E s \in EngineSchedules, t \in ReferenceInstants :
          nx = [s |-> s, t |-> t, r |-> ZeroTime, n |-> 0, done |-> FALSE]

\* entry.Next = entry.Schedule.Next(now)
ComputeNext ==
    /\ ~nx.done
    /\ nx' = [nx EXCEPT !.r = SpecNext(nx.s, nx.t), !.done = TRUE]
    /\ UNCHANGED <<procs, runs, now, ticks>>

\* The activation found becomes the reference instant of the next search.
ChainNext ==
    /\ nx.done
    /\ ~IsZero(nx.r)
    /\ nx.n < MaxChain
    /\ nx' = [nx EXCEPT !.t = nx.r, !.r = ZeroTime, !.n = nx.n + 1, !.done = FALSE]
    /\ UNCHANGED <<procs, runs, now, ticks>>

NextNext == ComputeNext \/ ChainNext

NextSpec == NextInit /\ [][NextNext]_vars

-----------------------------------------------------------------------------
(* What the claims speak of.                                               *)

Born == {p \in PIDs : procs[p].pc # "unborn"}
PastStartup == {p \in PIDs : procs[p].pc \in {"ready", "blocking", "exited"}}
RunIds == 1..Len(runs)
RunsOf(p) == {i \in RunIds : runs[i].pid = p}
ChildrenOf(p) == {c \in Born : procs[c].parent = p}

\* Flags the flag package accepts.
FlagsParsed(a) == a.parse = "ok"

\* Arguments no startup check rejects.
ValidArguments(a) ==
    /\ a.parse = "ok"
    /\ a.nargs = 2
    /\ ~(a.fg # "absent" /\ a.log # "default")
    /\ a.log \notin {"unresolvable", "unopenable"}
    /\ a.expr.valid

\* A date satisfies the day fields of a schedule: day-of-month and
\* day-of-week are alternatives when both are restricted.
DaySatisfied(s, u) ==
    /\ u.d \in 1..DaysIn(u.y, u.mo)
    /\ IF ~s.domStar /\ ~s.dowStar THEN u.d \in s.dom \/ Weekday(u) \in s.dow
       ELSE IF ~s.domStar THEN u.d \in s.dom
       ELSE IF ~s.dowStar THEN Weekday(u) \in s.dow
       ELSE TRUE

\* An instant satisfies every restricted field of a schedule.
FieldsSatisfied(s, u) ==
    /\ u.s = 0
    /\ u.mi \in s.minute
    /\ u.h \in s.hour
    /\ u.mo \in s.month
    /\ DaySatisfied(s, u)

\* Some instant strictly between t and r satisfies every field of s.
MatchBetween(s, t, r) ==
    \E y \in t.y..r.y : \E mo \in s.month :
        /\ y * 13 + mo >= t.y * 13 + t.mo
        /\ y * 13 + mo <= r.y * 13 + r.mo
        /\ \E d \in 1..DaysIn(y, mo) :
              LET day == Instant(y, mo, d, 0, 0, 0) IN
              /\ DateKey(day) >= DateKey(t)
              /\ DateKey(day) <= DateKey(r)
              /\ DaySatisfied(s, day)
              /\ \E h \in s.hour, mi \in s.minute :
                    LET u == Instant(y, mo, d, h, mi, 0)
                    IN  Before(t, u) /\ Before(u, r)

\* A schedule no date satisfies: a star day-of-week and only days of the
\* month that none of its months has.
CanNeverMatch(s) ==
    /\ s.valid
    /\ ~s.domStar
    /\ s.dowStar
    /\ \A mo \in s.month, d \in s.dom :
          d > (IF mo = 2 THEN 29 ELSE IF mo \in {4, 6, 9, 11} THEN 30 ELSE 31)

\* The first instant past the search of Next started at t: the start of the
\* sixth year after the year of the second that follows t.
HorizonEnd(t) == Instant(AddSecond(t).y + 6, 1, 1, 0, 0, 0)

-----------------------------------------------------------------------------
\* C1 (as stated): in blocking mode no invocation of the command is started
\* while an earlier invocation by the same scheduler is still running.
C1_NoOverlap ==
    \A i, j \in RunIds :
        (i < j /\ runs[i].pid = runs[j].pid)
            => ~(runs[i].state = "running" /\ runs[j].state = "running")

\* C1 (amended): the scheduler starts one invocation per activation of the
\* schedule: every invocation is started at or after the activation it was
\* due at, and a later invocation of the same scheduler is due at a
\* strictly later activation; the earlier one need not have returned.
C1_OnePerActivation ==
    \A j \in RunIds :
        /\ ~IsZero(runs[j].due)
        /\ ~After(runs[j].due, runs[j].at)
        /\ \A i \in RunIds :
              (i < j /\ runs[i].pid = runs[j].pid) => Before(runs[i].due, runs[j].due)

\* Two invocations of one scheduler, the earlier still running when the
\* later was started a minute after it.
C1_Witness ==
    \E i, j \in RunIds :
        /\ i < j
        /\ runs[i].pid = runs[j].pid
        /\ runs[i].state = "running"
        /\ runs[j].state = "running"
        /\ Before(runs[i].at, runs[j].at)

-----------------------------------------------------------------------------
\* C2: a process started with valid arguments, without -fg and without the
\* marker never blocks; when its exec of itself succeeds it has started
\* exactly one copy (same arguments, marker set, no standard stream
\* connected) and exits 0; the copy is recognised as the cron process, blocks
\* with its output on the log file and starts no copy of its own, so no
\* copy ever has a copy as its parent.
C2_RelaunchHandOff ==
    \A p \in PastStartup :
        LET pr == procs[p] IN
        (ValidArguments(pr.args) /\ pr.args.fg # "true" /\ pr.startEnv = "absent") =>
            /\ pr.pc \in {"ready", "exited"}
            /\ ~pr.started
            /\ pr.spawned = Cardinality(ChildrenOf(p))
            /\ pr.pc = "ready" => pr.spawned = 0
            /\ (pr.pc = "exited" /\ ~pr.spawnFailed) => (pr.exit = 0 /\ pr.spawned = 1)
            /\ (pr.pc = "exited" /\ pr.spawnFailed) => (pr.exit = 1 /\ pr.spawned = 0)
            /\ \A c \in ChildrenOf(p) :
                  /\ procs[c].args = pr.args
                  /\ procs[c].startEnv = envVarValueExpected
                  /\ procs[c].startStream = "devnull"
                  /\ procs[c].spawned = 0
                  /\ ~procs[c].spawnFailed
                  /\ ChildrenOf(c) = {}
                  /\ procs[c].pc \in {"ready", "blocking", "exited"} =>
                        (procs[c].isCronProcess /\ procs[c].stdout = "logfile")
                  /\ procs[c].pc = "exited" => procs[c].started

\* The parent has exited with status 0 and its one copy is blocking.
C2_Witness ==
    \E p \in PIDs :
        /\ procs[p].startEnv = "absent"
        /\ procs[p].pc = "exited"
        /\ procs[p].exit = 0
        /\ \E c \in ChildrenOf(p) : procs[c].pc = "blocking" /\ RunsOf(c) # {}

-----------------------------------------------------------------------------
\* C3 (as stated): a process started with the marker variable present and
\* valid arguments is the cron process: it starts the scheduler, blocks and
\* starts no copy of itself.
C3_MarkerPresentBlocks ==
    \A p \in PastStartup :
        LET pr == procs[p] IN
        (ValidArguments(pr.args) /\ pr.startEnv # "absent") =>
            /\ pr.spawned = 0
            /\ ~pr.spawnFailed
            /\ pr.pc = "exited" => pr.started

\* C3 (amended): a process started with the marker variable present and
\* equal to the expected value, and with valid arguments, starts the
\* scheduler and blocks (with its output on the log file unless -fg was
\* given), and never starts a copy of itself.
C3_ExpectedMarkerBlocks ==
    \A p \in PastStartup :
        LET pr == procs[p] IN
        (ValidArguments(pr.args) /\ pr.startEnv = envVarValueExpected) =>
            /\ pr.isCronProcess
            /\ pr.spawned = 0
            /\ ~pr.spawnFailed
            /\ ChildrenOf(p) = {}
            /\ pr.pc = "exited" => pr.started
            /\ pr.pc = "blocking" => pr.started
            /\ pr.args.fg # "true" => pr.stdout = "logfile"
            /\ pr.args.fg = "true" => pr.stdout = pr.startStream

\* The invoker itself set the marker to the expected value: the process
\* blocks and fires.
C3_Witness ==
    \E p \in PIDs :
        /\ procs[p].parent = 0
        /\ procs[p].startEnv = envVarValueExpected
        /\ procs[p].pc = "blocking"
        /\ RunsOf(p) # {}

-----------------------------------------------------------------------------
\* C4: the marker is removed from a process's environment at startup and
\* set again only on the relaunch path, right before the copy is started:
\* a process that is ready or blocking has no marker, every command fired
\* inherits an environment without it, only a process that has gone through
\* the relaunch path has it (with the expected value), and every copy is
\* started with it.
C4_MarkerSingleUse ==
    /\ \A i \in RunIds : runs[i].env = "absent"
    /\ \A p \in PastStartup :
          /\ procs[p].pc \in {"ready", "blocking"} => procs[p].env = "absent"
          /\ procs[p].env # "absent" =>
                /\ procs[p].env = envVarValueExpected
                /\ procs[p].pc = "exited"
                /\ ~procs[p].started
                /\ procs[p].spawned = 1 \/ procs[p].spawnFailed
    /\ \A c \in Born : procs[c].parent # 0 => procs[c].startEnv = envVarValueExpected

\* A process started with the marker in its environment has fired a command.
C4_Witness ==
    \E i \in RunIds : procs[runs[i].pid].startEnv # "absent" /\ runs[i].env = "absent"

-----------------------------------------------------------------------------
\* C5: a fired command that cannot be started or that exits non-zero ends
\* the scheduler process with status 1, and no command is fired by that
\* process after the failure.
C5_FailedFiringIsFatal ==
    \A i \in RunIds :
        /\ runs[i].state = "failed" =>
              (procs[runs[i].pid].pc = "exited" /\ procs[runs[i].pid].exit = 1)
        /\ ~runs[i].afterFailure

\* A scheduler that had fired before has exited with status 1 on a failure.
C5_Witness ==
    \E i, j \in RunIds :
        /\ i < j
        /\ runs[i].pid = runs[j].pid
        /\ runs[i].state = "done"
        /\ runs[j].state = "failed"
        /\ procs[runs[j].pid].exit = 1

-----------------------------------------------------------------------------
\* C6: with both -fg and -log on a command line that flag.Parse accepts,
\* the process exits with status 1 and has neither opened (created,
\* truncated) the log file, nor registered the expression, nor started the
\* scheduler or a copy.
C6_FgWithLogRejected ==
    \A p \in PastStartup :
        LET pr == procs[p] IN
        (FlagsParsed(pr.args) /\ pr.args.fg # "absent" /\ pr.args.log # "default") =>
            /\ pr.pc = "exited"
            /\ pr.exit = 1
            /\ pr.opens = 0
            /\ pr.truncs = 0
            /\ ~pr.fdOpen
            /\ ~pr.registered
            /\ ~pr.started
            /\ pr.spawned = 0
            /\ ~pr.spawnFailed
            /\ ChildrenOf(p) = {}
            /\ RunsOf(p) = {}

\* Two arguments, a good expression, a log file that could be opened and
\* truncated, and -fg: the process has exited.
C6_Witness ==
    \E p \in PIDs :
        /\ procs[p].pc = "exited"
        /\ procs[p].args.parse = "ok"
        /\ procs[p].args.nargs = 2
        /\ procs[p].args.fg = "true"
        /\ procs[p].args.log = "good"
        /\ procs[p].args.truncate
        /\ procs[p].args.expr.valid

-----------------------------------------------------------------------------
\* C7: on a command line that flag.Parse accepts, a wrong argument count, -fg with -log, a log path that cannot be
\* resolved or opened, or an expression that does not parse ends the process
\* with status 1 before the scheduler is started and before a copy is
\* started; a failed start of the copy ends it with status 1 too, and no PID
\* is printed.
C7_StartupErrorsAreFatal ==
    \A p \in PastStartup :
        LET pr == procs[p] IN
        /\ (FlagsParsed(pr.args) /\ ~ValidArguments(pr.args)) =>
              /\ pr.pc = "exited"
              /\ pr.exit = 1
              /\ ~pr.started
              /\ pr.spawned = 0
              /\ ~pr.spawnFailed
              /\ pr.pidLines = 0
              /\ ChildrenOf(p) = {}
              /\ RunsOf(p) = {}
        /\ pr.spawnFailed =>
              /\ pr.pc = "exited"
              /\ pr.exit = 1
              /\ ~pr.started
              /\ pr.spawned = 0
              /\ pr.pidLines = 0
              /\ ChildrenOf(p) = {}

\* The start of the copy has failed in a process that would have printed
\* the PID.
C7_Witness ==
    \E p \in PIDs : procs[p].spawnFailed /\ ~procs[p].args.quiet /\ procs[p].exit = 1

-----------------------------------------------------------------------------
\* C8 (as stated): in foreground and in background mode cmd.Stdin of every
\* fired command is nil, never the scheduler's own standard input.
C8_StdinDisconnected ==
    \A i \in RunIds : runs[i].stdin = "nil"

\* C8 (amended): in foreground mode every fired command runs with its
\* standard input disconnected; in background mode its standard input is
\* the scheduler's own, which is the null device whenever the scheduler is
\* the copy started by the relaunch.
C8_StdinByMode ==
    \A i \in RunIds :
        LET pr == procs[runs[i].pid] IN
        /\ pr.args.fg = "true" => (runs[i].stdin = "nil" /\ runs[i].stdinFile = "devnull")
        /\ pr.args.fg # "true" => (runs[i].stdin = "os.Stdin" /\ runs[i].stdinFile = pr.stdin)
        /\ (pr.args.fg # "true" /\ pr.parent # 0) => runs[i].stdinFile = "devnull"

\* A command fired by a background scheduler that the invoker started with
\* the marker set: it reads the invoker's terminal.
C8_Witness ==
    \E i \in RunIds :
        /\ procs[runs[i].pid].parent = 0
        /\ procs[runs[i].pid].args.fg # "true"
        /\ runs[i].stdin = "os.Stdin"
        /\ runs[i].stdinFile = "tty"

-----------------------------------------------------------------------------
\* C9 (as stated): with an expression that parses and can never match, the
\* search for the next activation ends in an error: a process that has
\* started its scheduler with such an expression has exited with status 1.
C9_NeverMatchingIsAnError ==
    \A p \in PastStartup :
        (CanNeverMatch(procs[p].args.expr) /\ procs[p].started) =>
            (procs[p].pc = "exited" /\ procs[p].exit = 1)

\* C9 (amended): with an expression that parses and can never match, the
\* search for the next activation stops at its five year limit and gives
\* the zero time, not an error: the expression is registered, nothing is
\* reported, the scheduler never fires and the process stays blocked.
C9_NeverMatchingBlocksSilently ==
    \A p \in PastStartup :
        LET pr == procs[p] IN
        (CanNeverMatch(pr.args.expr) /\ ValidArguments(pr.args)) =>
            /\ pr.registered
            /\ pr.diag = "none" \/ pr.spawnFailed
            /\ RunsOf(p) = {}
            /\ pr.started =>
                  /\ pr.pc = "blocking"
                  /\ IsZero(pr.next)
                  /\ pr.exit = -1

\* The clock has run to the end and a scheduler with "0 0 31 2 *" is blocked.
C9_Witness ==
    \E p \in PIDs :
        /\ CanNeverMatch(procs[p].args.expr)
        /\ procs[p].pc = "blocking"
        /\ ticks = MaxTicks

-----------------------------------------------------------------------------
\* C10 (as stated): for every valid five field expression and reference
\* instant t the activation computed is strictly later than t, satisfies
\* every restricted field, and no instant strictly between satisfies them.
C10_NextIsFirstMatch ==
    nx.done =>
        /\ After(nx.r, nx.t)
        /\ FieldsSatisfied(nx.s, nx.r)
        /\ ~MatchBetween(nx.s, nx.t, nx.r)

\* C10 (amended): for every valid five field expression and reference
\* instant t, either an activation is computed, and it is strictly later
\* than t, satisfies every restricted field (day-of-month or day-of-week
\* when both are restricted) and no instant strictly between satisfies
\* them; or none is computed (the zero time), and then no instant after t up
\* to the end of the fifth year after it satisfies them.
C10_NextIsFirstMatchWithinLimit ==
    nx.done =>
        IF IsZero(nx.r) THEN ~MatchBetween(nx.s, nx.t, HorizonEnd(nx.t))
        ELSE /\ After(nx.r, nx.t)
             /\ FieldsSatisfied(nx.s, nx.r)
             /\ ~MatchBetween(nx.s, nx.t, nx.r)

\* Day-of-month and day-of-week both restricted, and the activation found
\* (from an earlier activation) is one the day-of-week alone admits.
C10_Witness ==
    /\ nx.done
    /\ nx.n >= 1
    /\ ~IsZero(nx.r)
    /\ ~nx.s.domStar
    /\ ~nx.s.dowStar
    /\ nx.r.d \notin nx.s.dom
    /\ Weekday(nx.r) \in nx.s.dow

-----------------------------------------------------------------------------
\* The processes that have ended by a call of os.Exit or by main returning.
Exited == {p \in Born : procs[p].pc = "exited"}

\* C11 (as stated): every exit of the program has status 0 exactly when it
\* is the relaunch parent returning after a successful start of its copy,
\* and status 1 otherwise; a process that started its scheduler never exits
\* with status 0.
C11_ExitStatusZeroOrOne ==
    \A p \in Exited :
        /\ procs[p].exit = (IF procs[p].spawned = 1 THEN 0 ELSE 1)
        /\ procs[p].started => procs[p].exit # 0

\* C11 (amended): an exit flag.Parse makes has status 0 for -h and status 2
\* for any other parse failure; every exit after flag.Parse has status 0
\* exactly when it is the relaunch parent returning after a successful start
\* of its copy, and status 1 otherwise; a process that started its scheduler
\* exits, if it does, with status 1.
C11_ExitStatusByCause ==
    \A p \in Exited :
        LET pr == procs[p] IN
        /\ pr.args.parse = "help" => pr.exit = 0
        /\ pr.args.parse = "undefined" => pr.exit = 2
        /\ ~FlagsParsed(pr.args) => (pr.spawned = 0 /\ ~pr.started /\ ~pr.registered /\ pr.opens = 0)
        /\ FlagsParsed(pr.args) => pr.exit = (IF pr.spawned = 1 THEN 0 ELSE 1)
        /\ pr.spawned = 1 => (~pr.started /\ ~pr.isCronProcess /\ ~foreground(pr.args))
        /\ pr.started => pr.exit = 1

\* The relaunch parent has exited with status 0 and its copy, blocking, has
\* exited with status 1 on a failed command.
C11_Witness ==
    \E p, c \in Exited :
        /\ procs[c].parent = p
        /\ procs[p].exit = 0
        /\ procs[c].started
        /\ procs[c].exit = 1
        /\ \E i \in RunsOf(c) : runs[i].state = "failed"

-----------------------------------------------------------------------------
RECURSIVE MinutesAfter(_, _)
MinutesAfter(t, k) == IF k = 0 THEN t ELSE MinutesAfter(AddMinute(t), k - 1)

\* The instants the clock has shown.
Elapsed == {MinutesAfter(StartInstant, k) : k \in 0..ticks}

FailedRunsOf(p) == {i \in RunsOf(p) : runs[i].state = "failed"}

-----------------------------------------------------------------------------
\* C13: in the foreground every fired command's stdout and stderr, the
\* "Running:" lines and the error line of a failed command are on the
\* streams the process was started with, and no log file is opened; in the
\* background cron process the log file has been opened exactly once before
\* the scheduler is started and stays open, and every fired command's stdout
\* and stderr, the "Running:" lines and the error line are on it.
C13_OutputAttachment ==
    /\ \A p \in PastStartup :
          LET pr == procs[p] IN
          /\ (pr.registered /\ foreground(pr.args)) =>
                /\ pr.opens = 0
                /\ ~pr.fdOpen
                /\ pr.stdout = pr.startStream
                /\ pr.stderr = pr.startStream
                /\ pr.logOutput = pr.startStream
          /\ (pr.registered /\ ~foreground(pr.args) /\ pr.isCronProcess) =>
                /\ pr.opens = 1
                /\ pr.fdOpen
                /\ pr.stdout = "logfile"
                /\ pr.stderr = "logfile"
                /\ pr.logOutput = "logfile"
    /\ \A i \in RunIds :
          LET pr == procs[runs[i].pid]
              out == IF foreground(pr.args) THEN pr.startStream ELSE "logfile"
          IN  /\ runs[i].stdout = out
              /\ runs[i].stderr = out
              /\ runs[i].announced => runs[i].announcedTo = out
              /\ runs[i].state = "failed" => pr.diag = out

\* The copy has fired twice with its output on the log file, and the error
\* of the second command is on the log file too.
C13_Witness ==
    \E i, j \in RunIds :
        LET pr == procs[runs[i].pid] IN
        /\ i < j
        /\ runs[i].pid = runs[j].pid
        /\ pr.parent # 0
        /\ pr.opens = 1
        /\ runs[i].stdout = "logfile"
        /\ runs[i].announcedTo = "logfile"
        /\ runs[j].stderr = "logfile"
        /\ runs[j].state = "failed"
        /\ pr.diag = "logfile"

-----------------------------------------------------------------------------
\* The same command line with -q given where it was not, and not given
\* where it was.
ToggleQuiet(a) == [a EXCEPT !.quiet = ~a.quiet]

\* The process as it was at the first line of main.
AtStart(pr, a) == NewProc(a, pr.startEnv, pr.parent, pr.startStream)

\* C14: with -q the relaunch parent prints no PID line and no firing writes
\* a "Running:" line; without -q the parent prints the PID of its copy
\* exactly once, and only after a successful start of the copy, and every
\* firing writes its "Running:" line; with -q toggled the startup of the
\* process ends in the same state (same exit or same mode), the command
\* line fired and its standard input are the same, and the parent's exit
\* status after a successful start is 0 either way.
C14_QuietOnlySilences ==
    /\ \A p \in Born :
          LET pr == procs[p]
              twin == ToggleQuiet(pr.args)
          IN  /\ pr.args.quiet => (pr.pidLines = 0 /\ pr.pidPrinted = 0)
              /\ ~pr.args.quiet => pr.pidLines = (IF pr.spawned = 1 THEN 1 ELSE 0)
              /\ pr.pidLines = 1 => pr.pidPrinted \in ChildrenOf(p)
              /\ pr.spawned = 1 => pr.exit = 0
              /\ Validate(AtStart(pr, twin)) = [Validate(AtStart(pr, pr.args)) EXCEPT !.args = twin]
              /\ BlocksForever(Validate(AtStart(pr, twin))) = BlocksForever(Validate(AtStart(pr, pr.args)))
    /\ \A i \in RunIds :
          LET a == procs[runs[i].pid].args IN
          /\ runs[i].announced = ~a.quiet
          /\ runs[i].argv = CommandLine(ToggleQuiet(a))
          /\ runs[i].stdin = CmdStdin(ToggleQuiet(a))

\* With -q: the parent has exited with status 0 without a PID line and its
\* copy has fired without a "Running:" line.
C14_Witness ==
    \E p \in Exited :
        /\ procs[p].args.quiet
        /\ procs[p].exit = 0
        /\ procs[p].spawned = 1
        /\ procs[p].pidLines = 0
        /\ \E c \in ChildrenOf(p) : \E i \in RunsOf(c) : ~runs[i].announced

-----------------------------------------------------------------------------
\* C15: the argument vector of every fired command is the shell, the
\* shell's command option and the command string when -shellCommandOption
\* is not empty, and the shell and the command string when it is empty; the
\* command string, whatever words it has, is one argument.
C15_CommandLineByOption ==
    \A i \in RunIds :
        LET a == procs[runs[i].pid].args
            argv == runs[i].argv
        IN  IF a.shellCommandOption # ""
            THEN /\ Len(argv) = 3
                 /\ argv[1] = a.shell
                 /\ argv[2] = a.shellCommandOption
                 /\ argv[3] = a.command
            ELSE /\ Len(argv) = 2
                 /\ argv[1] = a.shell
                 /\ argv[2] = a.command

\* A command string of two words fired with an empty -shellCommandOption.
C15_Witness ==
    \E i \in RunIds :
        /\ procs[runs[i].pid].args.shellCommandOption = ""
        /\ Len(procs[runs[i].pid].args.command) = 2
        /\ Len(runs[i].argv) = 2

-----------------------------------------------------------------------------
\* C16: a process started with the marker variable set to a value other
\* than the expected one has removed it and is not the cron process: with
\* valid arguments and without -fg it relaunches and does not start the
\* scheduler; the copy it starts finds the marker with the expected value,
\* every command fired finds no marker, and no process other than the one
\* the invoker started ever finds an unexpected value.
C16_UnexpectedMarkerNotPropagated ==
    /\ \A p \in PastStartup :
          LET pr == procs[p] IN
          pr.startEnv = "other" =>
              /\ ~pr.isCronProcess
              /\ pr.env # "other"
              /\ pr.pc \in {"ready", "blocking"} => pr.env = "absent"
              /\ pr.started => foreground(pr.args)
              /\ (ValidArguments(pr.args) /\ ~foreground(pr.args)) =>
                    /\ pr.pc \in {"ready", "exited"}
                    /\ pr.pc = "exited" => (pr.spawned = 1 \/ pr.spawnFailed)
              /\ \A c \in ChildrenOf(p) :
                    /\ procs[c].startEnv = envVarValueExpected
                    /\ procs[c].pc \in {"ready", "blocking", "exited"} => procs[c].isCronProcess
              /\ \A i \in RunsOf(p) : runs[i].env = "absent"
    /\ \A c \in Born : procs[c].parent # 0 => procs[c].startEnv # "other"
    /\ \A i \in RunIds : runs[i].env # "other"

\* The invoker set the marker to another value: the process has relaunched
\* and exited, and its copy, started with the expected value, has fired.
C16_Witness ==
    \E p \in Exited :
        /\ procs[p].startEnv = "other"
        /\ procs[p].exit = 0
        /\ \E c \in ChildrenOf(p) :
              /\ procs[c].startEnv = envVarValueExpected
              /\ procs[c].pc = "blocking"
              /\ RunsOf(c) # {}

-----------------------------------------------------------------------------
\* C17: a process whose stdout, stderr or log output is the log file, or
\* that holds the log file open, is the relaunched instance and is not in
\* the foreground; every other process keeps the streams it was started
\* with, holds no descriptor of the log file after its startup checks even
\* when it has opened the file, and has written its diagnostic and its PID
\* line, if any, to those streams.
C17_RedirectOnlyInCronProcess ==
    \A p \in PastStartup :
        LET pr == procs[p] IN
        /\ (pr.stdout = "logfile" \/ pr.stderr = "logfile" \/ pr.logOutput = "logfile" \/ pr.fdOpen)
              => (pr.isCronProcess /\ ~foreground(pr.args))
        /\ ~pr.isCronProcess =>
              /\ pr.stdout = pr.startStream
              /\ pr.stderr = pr.startStream
              /\ pr.logOutput = pr.startStream
              /\ ~pr.fdOpen
              /\ pr.diag \in {"none", pr.startStream}
              /\ pr.pidTo \in {"none", pr.startStream}
              /\ pr.pidLines = 1 => pr.pidTo = pr.startStream
        /\ pr.spawned = 1 => (pr.opens = 1 /\ ~pr.fdOpen)

\* The relaunch parent has opened and truncated the log file, closed it,
\* and printed the PID of its copy on the invoker's terminal.
C17_Witness ==
    \E p \in Exited :
        /\ procs[p].spawned = 1
        /\ procs[p].args.log = "good"
        /\ procs[p].truncs = 1
        /\ ~procs[p].fdOpen
        /\ procs[p].pidLines = 1
        /\ procs[p].pidTo = "tty"

-----------------------------------------------------------------------------
\* The command line gets as far as the log file, and the file can be opened.
ReachesLogFile(a) ==
    /\ FlagsParsed(a)
    /\ a.nargs = 2
    /\ ~(a.fg # "absent" /\ a.log # "default")
    /\ ~foreground(a)
    /\ a.log \in {"default", "good"}

\* C18: without -fg the log file is opened, and with -truncate truncated,
\* before the expression is parsed: a process that has exited on a
\* malformed expression has opened the file once, and truncated it if
\* -truncate was given; and after a successful relaunch with -truncate the
\* parent has truncated the file once and the copy, once past its own
\* startup, once more.
C18_LogOpenedBeforeParse ==
    \A p \in PastStartup :
        LET pr == procs[p] IN
        /\ ReachesLogFile(pr.args) =>
              /\ pr.opens = 1
              /\ pr.truncs = (IF pr.args.truncate THEN 1 ELSE 0)
              /\ ~pr.args.expr.valid =>
                    /\ pr.pc = "exited"
                    /\ pr.exit = 1
                    /\ ~pr.registered
                    /\ pr.spawned = 0
        /\ ~ReachesLogFile(pr.args) => (pr.opens = 0 /\ pr.truncs = 0)
        /\ (pr.spawned = 1 /\ pr.args.truncate) =>
              /\ pr.truncs = 1
              /\ \A c \in ChildrenOf(p) \cap PastStartup :
                    /\ procs[c].truncs = 1
                    /\ pr.truncs + procs[c].truncs = 2

\* After a relaunch with -truncate the copy is blocking: the file has been
\* truncated by the parent and by the copy.
C18_Witness ==
    \E p \in Exited :
        /\ procs[p].spawned = 1
        /\ procs[p].args.truncate
        /\ procs[p].truncs = 1
        /\ \E c \in ChildrenOf(p) : procs[c].pc = "blocking" /\ procs[c].truncs = 1

-----------------------------------------------------------------------------
\* C19: a process started with -fg, whatever the marker in its environment
\* (absent, expected or another value), has not opened or truncated the log
\* file, keeps the streams it was started with, has started no copy of
\* itself and, with valid arguments, runs the scheduler itself; every
\* command it fires has cmd.Stdin nil and reads the null device.
C19_ForegroundWhateverTheMarker ==
    \A p \in PastStartup :
        LET pr == procs[p] IN
        foreground(pr.args) =>
            /\ pr.opens = 0
            /\ pr.truncs = 0
            /\ ~pr.fdOpen
            /\ pr.stdout = pr.startStream
            /\ pr.stderr = pr.startStream
            /\ pr.logOutput = pr.startStream
            /\ pr.spawned = 0
            /\ ~pr.spawnFailed
            /\ ChildrenOf(p) = {}
            /\ ValidArguments(pr.args) =>
                  /\ pr.pc = "exited" => pr.started
                  /\ \A i \in RunsOf(p) :
                        /\ runs[i].stdin = "nil"
                        /\ runs[i].stdinFile = "devnull"
                        /\ runs[i].stdout = pr.startStream
            /\ ~ValidArguments(pr.args) => (pr.pc = "exited" /\ ~pr.started)

\* Started with -fg and with the marker set to the expected value: the
\* process has fired a command on its own streams.
C19_Witness ==
    \E p \in PIDs :
        /\ foreground(procs[p].args)
        /\ procs[p].startEnv = envVarValueExpected
        /\ procs[p].isCronProcess
        /\ procs[p].pc = "blocking"
        /\ procs[p].opens = 0
        /\ \E i \in RunsOf(p) : runs[i].stdin = "nil" /\ runs[i].stdout = "tty"


=============================================================================
